---- MODULE Spec2Model ----
(***************************************************************************)
(* A model of the spright sprite renderer: the grouping of an ordered      *)
(* sprite list by texture identity (batch, Renderer::prepare), the         *)
(* grow-only DynamicBuffer, the packing of per-group texture uniforms, the *)
(* prepare/render protocol of Renderer, and TextureSlice::slice.           *)
(***************************************************************************)
EXTENDS Integers, Sequences, FiniteSets, TLC

VARIABLES
    api,                     \* what the caller drives: "renderer", "batch", "buffer", "slice", "transform"
    alignment,               \* device.limits().min_uniform_buffer_offset_alignment
    panicked,                \* a panic has unwound out of prepare
    target_uniforms,         \* content of Renderer.target_uniforms_buffer
    texture_uniforms_buffer, \* Renderer.texture_uniforms_buffer (a DynamicBuffer)
    vertex_buffer,           \* Renderer.vertex_buffer (a DynamicBuffer)
    index_buffer,            \* Renderer.index_buffer (a DynamicBuffer)
    prepared_groups,         \* Renderer.prepared_groups
    next_buffer,             \* number of GPU buffers the device has created so far
    frame,                   \* number of prepare calls so far
    sprites,                 \* the sprite list of the most recent prepare call
    grouped,                 \* prepare's local `grouped` of the most recent call
    rpass,                   \* the caller's open render pass: one command list per render call
    batch_in,                \* argument of the most recent batch() call
    batch_out,               \* result of the most recent batch() call
    dbuf,                    \* a DynamicBuffer used on its own
    dbuf_next,               \* next GPU buffer identity for dbuf's device
    dbuf_hist,               \* the writes to dbuf so far: data, GPU buffer before and after
    slice_tex,               \* the texture a TextureSlice was made from
    slice_cur,               \* the current TextureSlice, or None
    slice_call,              \* the most recent from_layer / slice call and its result
    slice_depth,             \* successful slice calls behind slice_cur
    overflow_checks,         \* whether the build panics on integer overflow (debug) or wraps
    tf_cur,                  \* the AffineTransform the caller holds
    tf_pt,                   \* the point the caller transforms
    tf_call,                 \* the most recent AffineTransform call and its result
    tf_ops                   \* AffineTransform calls so far

rvars == <<alignment, panicked, target_uniforms, texture_uniforms_buffer, vertex_buffer,
           index_buffer, prepared_groups, next_buffer, frame, sprites, grouped, rpass>>
bvars == <<batch_in, batch_out>>
dvars == <<dbuf, dbuf_next, dbuf_hist>>
svars == <<slice_tex, slice_cur, slice_call, slice_depth, overflow_checks>>
tvars == <<tf_cur, tf_pt, tf_call, tf_ops>>
vars == <<api, rvars, bvars, dvars, svars, tvars>>

-----------------------------------------------------------------------------
(* Bounds of the model. *)

\* longest sprite list handed to prepare or batch
MaxSprites == 4
\* prepare calls in one run
MaxFrames == 2
\* render calls recorded into one render pass
MaxRenders == 2
\* write calls on the DynamicBuffer used on its own
MaxWrites == 3
\* successful slice calls chained from one from_layer
MaxSlices == 2
\* AffineTransform calls in one run
MaxOps == 2

-----------------------------------------------------------------------------
(* Sizes fixed by the program. *)

\* size_of::<Vertex>(): [f32;3] + [f32;2] + u32 + [f32;4]
VertexSize == 40
\* size_of::<u32>(), one index
IndexSize == 4
\* TextureUniforms::SHADER_SIZE: a vec3<f32> (12 bytes, aligned to 16) followed by a u32
TextureUniformsSize == 16
\* the vertex and index buffers start with room for 1024 elements
InitialElements == 1024
\* encase's DynamicUniformBuffer::new_with_alignment rejects alignments below 32
MinEncaseAlignment == 32

Max(a, b) == IF a >= b THEN a ELSE b

IsPowerOfTwo(n) == n \in {2, 4, 8, 16, 32, 64, 128, 256, 512, 1024}

\* no rounding: the value as it is
RoundUpNone(n, a) == n

\* AlignmentValue::round_up
RoundUp(n, a) == ((n + a - 1) \div a) * a

-----------------------------------------------------------------------------
(* Textures, slices and sprites. *)

\* Two textures that differ in identity, dimensions, layer count and format.
Textures ==
    { [id |-> 1, width |-> 280, height |-> 210, layers |-> 1, format |-> "Rgba8UnormSrgb"],
      [id |-> 2, width |-> 128, height |-> 64, layers |-> 2, format |-> "R8Unorm"] }

Texture(id) == CHOOSE t \in Textures : t.id = id

Rect(x, y, w, h) == [offset |-> <<x, y>>, size |-> <<w, h>>]

\* A TextureSlice: the texture it borrows (by identity), the layer and the rectangle.
TextureSlice(tex, layer, rect) == [texture |-> tex, layer |-> layer, rect |-> rect]

\* glam's Affine2 as <<x_axis.x, x_axis.y, y_axis.x, y_axis.y, translation.x, translation.y>>
Affine2(m00, m01, m10, m11, tx, ty) == <<m00, m01, m10, m11, tx, ty>>

\* lib.rs Sprite: slice, transform, tint (RGBA8)
Sprite(slice, transform, tint) == [slice |-> slice, transform |-> transform, tint |-> tint]

\* The sprites the caller builds its lists from: two of the first texture that differ
\* in every other field, and one of the second texture.
SpriteUniverse ==
    { Sprite(TextureSlice(1, 0, Rect(0, 0, 280, 210)), Affine2(2, 0, 0, 2, 10, 20),
             <<255, 255, 255, 255>>),
      Sprite(TextureSlice(1, 0, Rect(16, 32, 64, 48)), Affine2(1, 0, 0, 1, 0, 0),
             <<255, 0, 0, 128>>),
      Sprite(TextureSlice(2, 1, Rect(8, 4, 100, 50)), Affine2(0, 1, -1, 0, 5, 7),
             <<0, 0, 0, 255>>) }

\* every list of at most n elements of S
SeqsUpTo(S, n) == UNION { [1..k -> S] : k \in 0..n }

SpriteLists == SeqsUpTo(SpriteUniverse, MaxSprites)

\* render-target sizes handed to prepare
TargetSizes == { <<640, 480>> }

\* values of min_uniform_buffer_offset_alignment a device reports: the smallest one
\* encase accepts and the next power of two below it
DeviceAlignments == { 16, 32 }

-----------------------------------------------------------------------------
(* Grouping: itertools' chunk_by. *)

RECURSIVE ChunkByFrom(_, _, _)
\* One linear scan over the keys: element i joins the last run when its key equals the
\* key of the element before it, and starts a new run otherwise. A run is <<first, last>>.
ChunkByFrom(keys, i, runs) ==
    IF i > Len(keys) THEN runs
    ELSE IF i > 1 /\ keys[i] = keys[i - 1]
         THEN ChunkByFrom(keys, i + 1,
                          [runs EXCEPT ![Len(runs)] = <<runs[Len(runs)][1], i>>])
         ELSE ChunkByFrom(keys, i + 1, Append(runs, <<i, i>>))

\* a grouping that never joins two elements
ChunkBySingletons(keys) == [i \in 1..Len(keys) |-> <<i, i>>]

\* chunk_by over a key sequence: the runs of consecutive equal keys, in order
ChunkBy(keys) == ChunkByFrom(keys, 1, <<>>)

\* a chunk collected back to front
ChunkReversed(s, run) == [j \in 1..(run[2] - run[1] + 1) |-> s[run[2] - j + 1]]

\* the elements of s a run covers, in order (chunk.collect::<Vec<_>>())
Chunk(s, run) == [j \in 1..(run[2] - run[1] + 1) |-> s[run[1] + j - 1]]

RECURSIVE Concat(_)
\* the concatenation of a sequence of sequences
Concat(ss) == IF ss = <<>> THEN <<>> ELSE Head(ss) \o Concat(Tail(ss))

\* prepare's `grouped`: the sprite list chunked by s.slice.texture
Grouped(sprs) ==
    LET runs == ChunkBy([i \in 1..Len(sprs) |-> sprs[i].slice.texture])
    IN  [g \in 1..Len(runs) |-> Chunk(sprs, runs[g])]

\* batch.rs Sprite: the same data with the slice spread over four fields
BatchSprite(s) ==
    [texture |-> s.slice.texture, src_offset |-> s.slice.rect.offset,
     src_size |-> s.slice.rect.size, src_layer |-> s.slice.layer,
     transform |-> s.transform, tint |-> s.tint]

BatchSpriteLists == SeqsUpTo({ BatchSprite(s) : s \in SpriteUniverse }, MaxSprites)

\* crate::Item made from one batch.rs Sprite
Item(s) ==
    [src_offset |-> s.src_offset, src_size |-> s.src_size, src_layer |-> s.src_layer,
     transform |-> s.transform, tint |-> s.tint]

\* batch(): one Group per chunk of equal texture, holding the chunk's first texture
\* and one Item per sprite of the chunk
batch(sprs) ==
    LET runs == ChunkBy([i \in 1..Len(sprs) |-> sprs[i].texture])
    IN  [g \in 1..Len(runs) |->
            LET chunk == Chunk(sprs, runs[g])
            IN  [texture |-> chunk[1].texture,
                 items |-> [j \in 1..Len(chunk) |-> Item(chunk[j])]]]

-----------------------------------------------------------------------------
(* GPU buffers and DynamicBuffer. *)

\* `len() as u32`: every length and index of the model is far below 2^32, the
\* largest integer TLC holds is 2^31 - 1, so the cast is written as the value itself.
U32(n) == n

\* A byte block: its length in bytes and what it holds.
Blob(bytes, items) == [bytes |-> bytes, items |-> items]

EmptyWrite == [via |-> "none", offset |-> 0, data |-> Blob(0, <<>>)]

\* device.create_buffer: a new buffer object of the descriptor's size, usage and label.
\* `write` is the most recent write into it; bytes past that write are not tracked.
CreateBuffer(id, label, size, usage, mapped_at_creation) ==
    [id |-> id, label |-> label, size |-> size, usage |-> usage,
     mapped |-> mapped_at_creation, write |-> EmptyWrite]

\* DynamicBuffer::new
DynamicBufferNew(id, label, size, usage) ==
    [inner |-> CreateBuffer(id, label, size, usage, FALSE), label |-> label]

\* a reallocation that over-allocates
ReallocateDoubling(self, id, size) ==
    [self EXCEPT !.inner = CreateBuffer(id, self.label, 2 * size, self.inner.usage, TRUE)]

\* DynamicBuffer::reallocate: a new buffer of `size` bytes with the DynamicBuffer's label
\* and the old buffer's usage, mapped at creation, swapped in for the old one.
Reallocate(self, id, size) ==
    [self EXCEPT !.inner = CreateBuffer(id, self.label, size, self.inner.usage, TRUE)]

\* a test that also replaces a buffer that is larger than the data
GrowsOnChange(self, data) == self.inner.size # data.bytes

\* the test of DynamicBuffer::write: the buffer is too small for the data
Grows(self, data) == self.inner.size < data.bytes

\* a write that makes a new buffer for every call
DynamicBufferWriteAlways(self, id, data) ==
    LET fresh == Reallocate(self, id, data.bytes)
    IN  [fresh EXCEPT !.inner.write = [via |-> "mapped_range", offset |-> 0, data |-> data],
                      !.inner.mapped = FALSE]

\* DynamicBuffer::write, `id` being the identity the device gives the next buffer it creates
DynamicBufferWrite(self, id, data) ==
    IF Grows(self, data)
    THEN LET fresh == Reallocate(self, id, data.bytes)
         IN  [fresh EXCEPT !.inner.write = [via |-> "mapped_range", offset |-> 0, data |-> data],
                           !.inner.mapped = FALSE]
    ELSE [self EXCEPT !.inner.write = [via |-> "queue_write", offset |-> 0, data |-> data]]

-----------------------------------------------------------------------------
(* Uniform packing: encase's DynamicUniformBuffer over a Vec<u8>. *)

\* TextureUniforms of a texture
TextureUniforms(tex) ==
    [size |-> <<Texture(tex).width, Texture(tex).height, 0>>,
     is_mask |-> IF Texture(tex).format = "R8Unorm" THEN 1 ELSE 0]

\* DynamicUniformBuffer::new_with_alignment panics unless the alignment is a power of
\* two that is at least 32
AlignmentAccepted(a) == IsPowerOfTwo(a) /\ a >= MinEncaseAlignment

RECURSIVE UniformBlock(_, _, _, _)
\* One DynamicUniformBuffer::write per group: record g goes to the cursor, the vector
\* grows to hold it, and the cursor advances by the record size rounded up to `a`.
UniformBlock(groups, g, a, acc) ==
    IF g > Len(groups) THEN Blob(acc.bytes, acc.items)
    ELSE UniformBlock(groups, g + 1, a,
            [bytes |-> Max(acc.bytes, acc.cursor + TextureUniformsSize),
             items |-> Append(acc.items,
                              [offset |-> acc.cursor,
                               value |-> TextureUniforms(groups[g][1].slice.texture)]),
             cursor |-> acc.cursor + RoundUp(TextureUniformsSize, a)])

\* the block prepare hands to texture_uniforms_buffer.write
TextureUniformsBlock(groups, a) ==
    UniformBlock(groups, 1, a, [bytes |-> 0, items |-> <<>>, cursor |-> 0])

-----------------------------------------------------------------------------
(* 32-bit arithmetic of Rect and the conversions to f32. *)

\* TLC's integers end at 2^31 - 1, so the 32-bit words of the code are modelled as
\* 30-bit words: u32 is 0 .. 2^30 - 1, i32 is -2^29 .. 2^29 - 1, and the casts and the
\* wrapping keep their shape (read 2^31 for I32Limit and 2^32 for U32Limit). f32 keeps
\* its 24-bit significand.
WordBits == 30
I32Limit == 2^(WordBits - 1)
U32Limit == 2^WordBits
F32Exact == 2^24

InI32(n) == -I32Limit <= n /\ n < I32Limit

\* the i32 a wrapping operation leaves
WrapI32(n) == ((n + I32Limit) % U32Limit) - I32Limit

\* `size as i32`: a u32 reinterpreted, 2^31 and above become negative
AsI32(u) == IF u >= I32Limit THEN u - U32Limit ELSE u

RectLeft(r) == r.offset[1]
RectTop(r) == r.offset[2]
\* offset.x + size.x as i32
RectRight(r) == WrapI32(r.offset[1] + AsI32(r.size[1]))
\* offset.y + size.y as i32
RectBottom(r) == WrapI32(r.offset[2] + AsI32(r.size[2]))

RECURSIVE F32Ulp(_, _)
\* the spacing of f32 values around the magnitude m: 1 below 2^24, then doubling
F32Ulp(m, u) == IF m < F32Exact * u THEN u ELSE F32Ulp(m, 2 * u)

\* `n as f32` of an integer: exact up to 2^24, otherwise rounded to the nearest
\* representable value, ties to even
F32(n) ==
    LET m == IF n < 0 THEN -n ELSE n
        u == F32Ulp(m, 1)
        q == m \div u
        r == m % u
        up == (2 * r > u) \/ (2 * r = u /\ q % 2 = 1)
        v == IF up THEN (q + 1) * u ELSE q * u
    IN  IF n < 0 THEN -v ELSE v

\* Affine2::transform_point2: matrix2 * p + translation
TransformPoint2(t, x, y) == <<t[1] * x + t[3] * y + t[5], t[2] * x + t[4] * y + t[6]>>

\* a colour channel `as f32 / 255.0`, kept as the fraction <<numerator, denominator>>
TintChannel(c) == <<c, 255>>

-----------------------------------------------------------------------------
(* Renderer::prepare: vertices, indices and prepared groups. *)

Vertex(position, tex_coords, layer, tint) ==
    [position |-> position, tex_coords |-> tex_coords, layer |-> layer, tint |-> tint]

\* vertices placed at the transformed corners of the unit square
SpriteVerticesUnitSquare(s) ==
    LET r == s.slice.rect
        tint == [c \in 1..4 |-> TintChannel(s.tint[c])]
        pos(x, y) == TransformPoint2(s.transform, x, y) \o <<0>>
    IN  << Vertex(pos(0, 0), <<F32(RectLeft(r)), F32(RectTop(r))>>, s.slice.layer, tint),
           Vertex(pos(0, 1), <<F32(RectLeft(r)), F32(RectBottom(r))>>, s.slice.layer, tint),
           Vertex(pos(1, 0), <<F32(RectRight(r)), F32(RectTop(r))>>, s.slice.layer, tint),
           Vertex(pos(1, 1), <<F32(RectRight(r)), F32(RectBottom(r))>>, s.slice.layer, tint) >>

\* the four vertices prepare emits for one sprite
SpriteVertices(s) ==
    LET r == s.slice.rect
        w == F32(r.size[1])
        h == F32(r.size[2])
        tint == [c \in 1..4 |-> TintChannel(s.tint[c])]
        pos(x, y) == TransformPoint2(s.transform, x, y) \o <<0>>
    IN  << Vertex(pos(0, 0), <<F32(RectLeft(r)), F32(RectTop(r))>>, s.slice.layer, tint),
           Vertex(pos(0, h), <<F32(RectLeft(r)), F32(RectBottom(r))>>, s.slice.layer, tint),
           Vertex(pos(w, 0), <<F32(RectRight(r)), F32(RectTop(r))>>, s.slice.layer, tint),
           Vertex(pos(w, h), <<F32(RectRight(r)), F32(RectBottom(r))>>, s.slice.layer, tint) >>

\* four indices per sprite, as for a triangle strip
SpriteIndicesStrip(offset) == [k \in 1..4 |-> U32(<<0, 1, 2, 3>>[k] + offset)]

\* the six indices prepare emits for one sprite: [0, 1, 2, 1, 2, 3] plus the offset
SpriteIndices(offset) == [k \in 1..6 |-> U32(<<0, 1, 2, 1, 2, 3>>[k] + offset)]

\* SpriteVertices, tabulated over the sprites the caller uses
SpriteVerticesOf == [s \in SpriteUniverse |-> SpriteVertices(s)]

RECURSIVE EmitSprites(_, _, _)
\* the inner loop over the sprites of one group
EmitSprites(sprs, j, acc) ==
    IF j > Len(sprs) THEN acc
    ELSE EmitSprites(sprs, j + 1,
            [acc EXCEPT !.vertices = acc.vertices \o SpriteVerticesOf[sprs[j]],
                        !.indices = acc.indices \o SpriteIndices(U32(Len(acc.vertices)))])

\* records bound back to back, ignoring the alignment
UniformOffsetPacked(i, a) == i * TextureUniformsSize

\* byte offset of group i's record in the texture-uniform buffer (i counts from 0)
UniformOffset(i, a) == i * a

\* device.create_bind_group for group i of prepare call `fr`
TextureBindGroup(fr, i, tex, buffer, a) ==
    [created |-> <<fr, i>>, label |-> "spright: texture_bind_group",
     texture_view |-> tex, sampler |-> "nearest",
     buffer |-> buffer, offset |-> UniformOffset(i, a), size |-> TextureUniformsSize]

\* a group that keeps the number of its indices where the end belongs
PreparedGroupCounted(bind_group, start, end) ==
    [texture_bind_group |-> bind_group, index_buffer_start |-> start,
     index_buffer_end |-> end - start]

PreparedGroup(bind_group, start, end) ==
    [texture_bind_group |-> bind_group, index_buffer_start |-> start, index_buffer_end |-> end]

RECURSIVE EmitGroups(_, _, _, _, _, _)
\* the loop over the groups: each emits its sprites and pushes one PreparedGroup
EmitGroups(groups, g, fr, buffer, a, acc) ==
    IF g > Len(groups) THEN acc
    ELSE LET start == U32(Len(acc.indices))
             emitted == EmitSprites(groups[g], 1, acc)
             bg == TextureBindGroup(fr, g - 1, groups[g][1].slice.texture, buffer, a)
         IN  EmitGroups(groups, g + 1, fr, buffer, a,
                [emitted EXCEPT !.prepared =
                    Append(acc.prepared, PreparedGroup(bg, start, U32(Len(emitted.indices))))])

\* a clear that keeps what the vector held
ClearNothing(groups) == groups

\* self.prepared_groups.clear()
Clear(groups) == <<>>

\* what the group loop leaves: the vertex array, the index array and prepared_groups,
\* `prepared` being prepared_groups as the loop finds it
Emitted(groups, fr, buffer, a, prepared) ==
    EmitGroups(groups, 1, fr, buffer, a,
               [vertices |-> <<>>, indices |-> <<>>, prepared |-> prepared])

-----------------------------------------------------------------------------
(* The Renderer and the caller that drives it. *)

Usage(a, b) == {a, b}

\* Renderer::new: the buffers in the order the device creates them
NewRenderer ==
    /\ panicked = FALSE
    /\ texture_uniforms_buffer =
          DynamicBufferNew(1, "spright: texture_uniforms_buffer", TextureUniformsSize,
                           Usage("UNIFORM", "COPY_DST"))
    /\ target_uniforms = [buffer |-> 2, size |-> <<0, 0, 0>>]
    /\ vertex_buffer =
          DynamicBufferNew(3, "spright: vertex_buffer", VertexSize * InitialElements,
                           Usage("VERTEX", "COPY_DST"))
    /\ index_buffer =
          DynamicBufferNew(4, "spright: vertex_buffer", IndexSize * InitialElements,
                           Usage("INDEX", "COPY_DST"))
    /\ next_buffer = 5
    /\ prepared_groups = <<>>
    /\ frame = 0
    /\ sprites = <<>>
    /\ grouped = <<>>
    /\ rpass = <<>>

\* batch() has not been called
NotCalled == [called |-> FALSE, groups |-> <<>>]

NoBatch == batch_in = <<>> /\ batch_out = NotCalled

\* Option::None
None == [some |-> FALSE]
\* Option::Some(v)
Some(v) == [some |-> TRUE, value |-> v]

\* the standalone DynamicBuffer and the texture slices are not in use
NoBuffer == dbuf = None /\ dbuf_next = 0 /\ dbuf_hist = <<>>
NoSlices ==
    /\ slice_tex = None
    /\ slice_cur = None
    /\ slice_call = [fn |-> "none"]
    /\ slice_depth = 0
    /\ overflow_checks = FALSE

\* no AffineTransform is in use
NoTransforms ==
    /\ tf_cur = None
    /\ tf_pt = None
    /\ tf_call = [fn |-> "none"]
    /\ tf_ops = 0

\* The caller either drives a Renderer on some device, or holds a sprite list it is
\* about to hand to batch().
Init ==
    /\ \/ api = "renderer" /\ alignment \in DeviceAlignments /\ NoBatch
       \/ /\ api = "batch"
          /\ alignment = 256
          /\ batch_in \in BatchSpriteLists
          /\ batch_out = NotCalled
    /\ NewRenderer
    /\ NoBuffer
    /\ NoSlices
    /\ NoTransforms

\* a render that does not borrow the Renderer for the life of the pass
PassEndedAlways(pass) == TRUE

\* render(&'rpass self, &mut RenderPass<'rpass>) borrows the Renderer for as long as the
\* pass lives, and prepare(&mut self) needs it unborrowed: the caller can call prepare
\* only when no pass that render has recorded into is open.
PassEnded(pass) == pass = <<>>

\* Renderer::prepare(device, queue, target_size, sprites)
Prepare(target_size, sprs) ==
    /\ api = "renderer"
    /\ ~panicked
    /\ PassEnded(rpass)
    /\ frame < MaxFrames
    /\ frame' = frame + 1
    /\ sprites' = sprs
    /\ target_uniforms' = [target_uniforms EXCEPT !.size = <<F32(target_size[1]),
                                                           F32(target_size[2]), 0>>]
    /\ grouped' = Grouped(sprs)
    /\ IF ~AlignmentAccepted(alignment)
       THEN \* new_with_alignment panics after prepared_groups.clear()
            /\ panicked' = TRUE
            /\ prepared_groups' = Clear(prepared_groups)
            /\ UNCHANGED <<texture_uniforms_buffer, vertex_buffer, index_buffer, next_buffer>>
       ELSE \E block \in {TextureUniformsBlock(grouped', alignment)} :
            \E tub \in {DynamicBufferWrite(texture_uniforms_buffer, next_buffer, block)} :
            \E out \in {Emitted(grouped', frame', tub.inner.id, alignment,
                                 Clear(prepared_groups))} :
            \E vdata \in {Blob(VertexSize * Len(out.vertices), out.vertices)} :
            \E idata \in {Blob(IndexSize * Len(out.indices), out.indices)} :
            \E id2 \in {IF Grows(texture_uniforms_buffer, block)
                        THEN next_buffer + 1 ELSE next_buffer} :
            \E id3 \in {IF Grows(vertex_buffer, vdata) THEN id2 + 1 ELSE id2} :
                /\ texture_uniforms_buffer' = tub
                /\ prepared_groups' = out.prepared
                /\ vertex_buffer' = DynamicBufferWrite(vertex_buffer, id2, vdata)
                /\ index_buffer' = DynamicBufferWrite(index_buffer, id3, idata)
                /\ next_buffer' = IF Grows(index_buffer, idata) THEN id3 + 1 ELSE id3
                /\ UNCHANGED panicked
    /\ UNCHANGED <<api, alignment, rpass, bvars, dvars, svars, tvars>>

\* a render whose every draw starts at the first index
RenderCommandsFromZero(vb, ib, groups) ==
    << [op |-> "set_pipeline"],
       [op |-> "set_vertex_buffer", slot |-> 0, buffer |-> vb],
       [op |-> "set_index_buffer", buffer |-> ib, format |-> "Uint32"],
       [op |-> "set_bind_group", index |-> 1, bind_group |-> "target_uniforms"] >>
    \o Concat([g \in 1..Len(groups) |->
          << [op |-> "set_bind_group", index |-> 0,
              bind_group |-> groups[g].texture_bind_group],
             [op |-> "draw_indexed", indices |-> <<0, groups[g].index_buffer_end>>,
              base_vertex |-> 0, instances |-> <<0, 1>>] >>])

\* the commands Renderer::render records into a pass
RenderCommands(vb, ib, groups) ==
    << [op |-> "set_pipeline"],
       [op |-> "set_vertex_buffer", slot |-> 0, buffer |-> vb],
       [op |-> "set_index_buffer", buffer |-> ib, format |-> "Uint32"],
       [op |-> "set_bind_group", index |-> 1, bind_group |-> "target_uniforms"] >>
    \o Concat([g \in 1..Len(groups) |->
          << [op |-> "set_bind_group", index |-> 0,
              bind_group |-> groups[g].texture_bind_group],
             [op |-> "draw_indexed",
              indices |-> <<groups[g].index_buffer_start, groups[g].index_buffer_end>>,
              base_vertex |-> 0, instances |-> <<0, 1>>] >>])

\* Renderer::render(&self, rpass): the caller's pass receives the commands
Render ==
    /\ api = "renderer"
    /\ ~panicked
    /\ Len(rpass) < MaxRenders
    /\ rpass' = Append(rpass, RenderCommands(vertex_buffer.inner.id, index_buffer.inner.id,
                                             prepared_groups))
    /\ UNCHANGED <<api, alignment, panicked, target_uniforms, texture_uniforms_buffer,
                   vertex_buffer, index_buffer, prepared_groups, next_buffer, frame,
                   sprites, grouped, bvars, dvars, svars, tvars>>

\* the caller ends its render pass, which releases the borrow of the Renderer
EndPass ==
    /\ api = "renderer"
    /\ rpass # <<>>
    /\ rpass' = <<>>
    /\ UNCHANGED <<api, alignment, panicked, target_uniforms, texture_uniforms_buffer,
                   vertex_buffer, index_buffer, prepared_groups, next_buffer, frame,
                   sprites, grouped, bvars, dvars, svars, tvars>>

\* the call batch(sprites) on the caller's list
Batch ==
    /\ api = "batch"
    /\ batch_out = NotCalled
    /\ batch_out' = [called |-> TRUE, groups |-> batch(batch_in)]
    /\ UNCHANGED <<api, batch_in, rvars, dvars, svars, tvars>>

Next ==
    \/ \E ts \in TargetSizes, sprs \in SpriteLists : Prepare(ts, sprs)
    \/ Render
    \/ EndPass
    \/ Batch

Spec == Init /\ [][Next]_vars

-----------------------------------------------------------------------------
(* A DynamicBuffer on its own: created with some descriptor, then written. *)

\* sizes of the descriptor DynamicBuffer::new is given
InitialSizes == { 4, 8, 16 }

\* lengths in bytes of the data handed to write
DataSizes == { 0, 4, 8, 16, 24 }

\* what the data holds
DataContents == { "a", "b" }

BufferInit ==
    /\ api = "buffer"
    /\ alignment = 256
    /\ NewRenderer
    /\ NoBatch
    /\ NoSlices
    /\ NoTransforms
    /\ \E size \in InitialSizes :
       \E usage \in { Usage("VERTEX", "COPY_DST"), Usage("UNIFORM", "COPY_DST") } :
       \E label \in { "spright: vertex_buffer", "spright: texture_uniforms_buffer" } :
          dbuf = DynamicBufferNew(1, label, size, usage)
    /\ dbuf_next = 2
    /\ dbuf_hist = <<>>

\* DynamicBuffer::write(device, queue, data); dbuf_hist keeps the data and the GPU buffer
\* before and after the call
BufferWrite(data) ==
    /\ api = "buffer"
    /\ Len(dbuf_hist) < MaxWrites
    /\ dbuf' = DynamicBufferWrite(dbuf, dbuf_next, data)
    /\ dbuf_next' = IF Grows(dbuf, data) THEN dbuf_next + 1 ELSE dbuf_next
    /\ dbuf_hist' = Append(dbuf_hist,
                           [data |-> data, before |-> dbuf.inner, after |-> dbuf'.inner])
    /\ UNCHANGED <<api, rvars, bvars, svars, tvars>>

BufferNext == \E n \in DataSizes, c \in DataContents : BufferWrite(Blob(n, <<c>>))

BufferSpec == BufferInit /\ [][BufferNext]_vars

-----------------------------------------------------------------------------
(* TextureSlice::from_layer and TextureSlice::slice. *)

\* i32 addition: the sum the wrapping build leaves, and whether it overflowed
AddI32(a, b) == [value |-> WrapI32(a + b), overflow |-> ~InI32(a + b)]

\* a layer test that lets the layer count itself through
FromLayerResultInclusive(tex, layer) ==
    IF layer > tex.layers THEN None
    ELSE Some(TextureSlice(tex.id, layer, Rect(0, 0, tex.width, tex.height)))

\* TextureSlice::from_layer(texture, layer)
FromLayerResult(tex, layer) ==
    IF layer >= tex.layers THEN None
    ELSE Some(TextureSlice(tex.id, layer, Rect(0, 0, tex.width, tex.height)))

\* TextureSlice::slice(&self, offset, size): "Some" with the new slice, "None", or
\* "Panic" where an addition overflows in a build that checks for overflow. The four
\* comparisons are evaluated left to right and stop at the first that holds.
SliceResult(self, offset, size, checks) ==
    LET x == AddI32(self.rect.offset[1], offset[1])
        y == AddI32(self.rect.offset[2], offset[2])
        rect == [offset |-> <<x.value, y.value>>, size |-> size]
        right == AddI32(rect.offset[1], AsI32(size[1]))
        self_right == AddI32(self.rect.offset[1], AsI32(self.rect.size[1]))
        bottom == AddI32(rect.offset[2], AsI32(size[2]))
        self_bottom == AddI32(self.rect.offset[2], AsI32(self.rect.size[2]))
        panic == [result |-> "Panic", value |-> self]
        none == [result |-> "None", value |-> self]
    IN  IF checks /\ (x.overflow \/ y.overflow) THEN panic
        ELSE IF RectLeft(rect) < RectLeft(self.rect) THEN none
        ELSE IF checks /\ (right.overflow \/ self_right.overflow) THEN panic
        ELSE IF right.value > self_right.value THEN none
        ELSE IF RectTop(rect) < RectTop(self.rect) THEN none
        ELSE IF checks /\ (bottom.overflow \/ self_bottom.overflow) THEN panic
        ELSE IF bottom.value > self_bottom.value THEN none
        ELSE [result |-> "Some", value |-> [self EXCEPT !.rect = rect]]

\* the textures slices are made from
SliceTextures ==
    { [id |-> 1, width |-> 280, height |-> 210, layers |-> 1],
      [id |-> 2, width |-> 110, height |-> 110, layers |-> 2] }

\* layers asked of from_layer
SliceLayers == { 0, 1, 2 }

\* offsets and sizes handed to slice: small ones, and sizes at the top of the i32 and
\* of the u32 range; the two axes are treated alike by the code, so y gets fewer values
SliceOffsetsX == { -1, 0, 100 }
SliceOffsetsY == { 0, 100 }
SliceSizesX == { 1, 110, 300, I32Limit - 1, U32Limit - 1 }
SliceSizesY == { 1, 300, U32Limit - 1 }

SliceInit ==
    /\ api = "slice"
    /\ alignment = 256
    /\ NewRenderer
    /\ NoBatch
    /\ NoBuffer
    /\ NoTransforms
    /\ slice_tex \in { Some(t) : t \in SliceTextures }
    /\ slice_cur = None
    /\ slice_call = [fn |-> "none"]
    /\ slice_depth = 0
    /\ overflow_checks \in BOOLEAN

\* a call of TextureSlice::from_layer on the texture
FromLayer(layer) ==
    /\ api = "slice"
    /\ ~slice_cur.some
    /\ slice_cur' = FromLayerResult(slice_tex.value, layer)
    /\ slice_call' = [fn |-> "from_layer", layer |-> layer, returned |-> slice_cur']
    /\ UNCHANGED <<api, rvars, bvars, dvars, tvars, slice_tex, slice_depth, overflow_checks>>

\* a call of slice on the current slice; a returned slice becomes the current one
Slice(offset, size) ==
    /\ api = "slice"
    /\ slice_cur.some
    /\ slice_call.fn = "slice" => slice_call.result # "Panic"
    /\ slice_depth < MaxSlices
    /\ \E r \in {SliceResult(slice_cur.value, offset, size, overflow_checks)} :
        /\ slice_call' = [fn |-> "slice", self |-> slice_cur.value, offset |-> offset,
                          size |-> size, result |-> r.result, value |-> r.value]
        /\ slice_cur' = IF r.result = "Some" THEN Some(r.value) ELSE slice_cur
        /\ slice_depth' = IF r.result = "Some" THEN slice_depth + 1 ELSE slice_depth
    /\ UNCHANGED <<api, rvars, bvars, dvars, tvars, slice_tex, overflow_checks>>

SliceNext ==
    \/ \E layer \in SliceLayers : FromLayer(layer)
    \/ \E ox \in SliceOffsetsX, oy \in SliceOffsetsY, w \in SliceSizesX, h \in SliceSizesY :
          Slice(<<ox, oy>>, <<w, h>>)

SliceSpec == SliceInit /\ [][SliceNext]_vars

-----------------------------------------------------------------------------
(* AffineTransform (transform.rs): six f32 scalars. *)

\* An f32 is held as the rational <<numerator, denominator>> in lowest terms with a
\* positive denominator. The values the transforms below produce are multiples of a
\* small power of 1/2 with a magnitude far below 2^24, which an f32 holds exactly; an
\* integer beyond 2^24 is rounded as f32 rounds. 0.0 and -0.0, which compare equal, are
\* one value.
Abs(n) == IF n < 0 THEN -n ELSE n

RECURSIVE Gcd(_, _)
Gcd(a, b) == IF b = 0 THEN a ELSE Gcd(b, a % b)

Ratio(n, d) ==
    LET g == Gcd(Abs(n), Abs(d))
    IN  IF d < 0 THEN <<(-n) \div g, (-d) \div g>> ELSE <<n \div g, d \div g>>

\* the f32 of an integer literal
Float(n) == <<F32(n), 1>>

\* the f32 nearest to the exact result of an operation
Round(r) == IF r[2] = 1 THEN <<F32(r[1]), 1>> ELSE r

FAdd(a, b) == Round(Ratio(a[1] * b[2] + b[1] * a[2], a[2] * b[2]))
FSub(a, b) == Round(Ratio(a[1] * b[2] - b[1] * a[2], a[2] * b[2]))
FMul(a, b) == Round(Ratio(a[1] * b[1], a[2] * b[2]))
\* a / b for b # 0.0
FDiv(a, b) == Round(Ratio(a[1] * b[2], a[2] * b[1]))
FNeg(a) == <<-a[1], a[2]>>

\* AffineTransform::new: the array [m00, m01, m10, m11, tx, ty]
new(m00, m01, m10, m11, tx, ty) == <<m00, m01, m10, m11, tx, ty>>

\* AffineTransform::IDENTITY
IDENTITY == <<Float(1), Float(0), Float(0), Float(1), Float(0), Float(0)>>

\* AffineTransform::translation
translation(tx, ty) == <<Float(1), Float(0), Float(0), Float(1), tx, ty>>

\* AffineTransform::scaling
scaling(sx, sy) == <<sx, Float(0), Float(0), sy, Float(0), Float(0)>>

\* AffineTransform::determinant: self.0[0] * self.0[3] - self.0[1] * self.0[2]
determinant(self) == FSub(FMul(self[1], self[4]), FMul(self[2], self[3]))

\* a test with a tolerance around zero
IsZeroWithin(det) == Abs(det[1]) <= det[2]

\* det == 0.0
IsZero(det) == det[1] = 0

\* AffineTransform::inverse
inverse(self) ==
    LET det == determinant(self)
    IN  IF IsZero(det) THEN None
        ELSE Some(<< FDiv(self[4], det),
                     FDiv(FNeg(self[2]), det),
                     FDiv(FNeg(self[3]), det),
                     FDiv(self[1], det),
                     FDiv(FSub(FMul(self[2], self[6]), FMul(self[4], self[5])), det),
                     FDiv(FSub(FMul(self[5], self[3]), FMul(self[1], self[6])), det) >>)

\* AffineTransform::transform(x, y)
transform(self, x, y) ==
    << FAdd(FAdd(FMul(x, self[1]), FMul(y, self[3])), self[5]),
       FAdd(FAdd(FMul(x, self[2]), FMul(y, self[4])), self[6]) >>

\* a product that applies the right operand first
mul_assign_right_first(self, rhs) ==
    << FAdd(FMul(rhs[1], self[1]), FMul(rhs[2], self[3])),
       FAdd(FMul(rhs[1], self[2]), FMul(rhs[2], self[4])),
       FAdd(FMul(rhs[3], self[1]), FMul(rhs[4], self[3])),
       FAdd(FMul(rhs[3], self[2]), FMul(rhs[4], self[4])),
       FAdd(FAdd(FMul(rhs[5], self[1]), FMul(rhs[6], self[3])), self[5]),
       FAdd(FAdd(FMul(rhs[5], self[2]), FMul(rhs[6], self[4])), self[6]) >>

\* a product that adds the two translations as they are
mul_assign_plain_translation(self, rhs) ==
    << FAdd(FMul(self[1], rhs[1]), FMul(self[2], rhs[3])),
       FAdd(FMul(self[1], rhs[2]), FMul(self[2], rhs[4])),
       FAdd(FMul(self[3], rhs[1]), FMul(self[4], rhs[3])),
       FAdd(FMul(self[3], rhs[2]), FMul(self[4], rhs[4])),
       FAdd(self[5], rhs[5]),
       FAdd(self[6], rhs[6]) >>

\* MulAssign::mul_assign: the value self holds afterwards
mul_assign(self, rhs) ==
    << FAdd(FMul(self[1], rhs[1]), FMul(self[2], rhs[3])),
       FAdd(FMul(self[1], rhs[2]), FMul(self[2], rhs[4])),
       FAdd(FMul(self[3], rhs[1]), FMul(self[4], rhs[3])),
       FAdd(FMul(self[3], rhs[2]), FMul(self[4], rhs[4])),
       FAdd(FAdd(FMul(self[5], rhs[1]), FMul(self[6], rhs[3])), rhs[5]),
       FAdd(FAdd(FMul(self[5], rhs[2]), FMul(self[6], rhs[4])), rhs[6]) >>

\* Mul::mul: `self *= rhs; self`
mul(self, rhs) == mul_assign(self, rhs)

\* a transform with integer entries
IntTransform(m00, m01, m10, m11, tx, ty) ==
    new(Float(m00), Float(m01), Float(m10), Float(m11), Float(tx), Float(ty))

\* the transforms the caller multiplies by: the identity, a translation, a scaling,
\* a quarter turn with a translation (determinant 1) and a shear with a reflection
\* and a translation (determinant -1)
Operands ==
    { IDENTITY,
      translation(Float(10), Float(20)),
      scaling(Float(2), Float(2)),
      IntTransform(0, 1, -1, 0, 5, 7),
      IntTransform(1, 2, 1, 1, -4, 6) }

\* the transforms the caller starts from: the operands, two degenerate transforms and
\* a shear
Transforms ==
    Operands \cup { scaling(Float(0), Float(1)),
                    IntTransform(2, 4, 1, 2, 1, 1),
                    IntTransform(1, 1, 0, 1, 3, -2) }

\* the points the caller transforms: the corners of a 280 x 210 rectangle and one more
Points ==
    { <<Float(0), Float(0)>>, <<Float(0), Float(210)>>, <<Float(280), Float(0)>>,
      <<Float(280), Float(210)>>, <<Float(-3), Float(5)>> }

TransformInit ==
    /\ api = "transform"
    /\ alignment = 256
    /\ NewRenderer
    /\ NoBatch
    /\ NoBuffer
    /\ NoSlices
    /\ tf_cur \in Transforms
    /\ tf_pt \in Points
    /\ tf_call = [fn |-> "none"]
    /\ tf_ops = 0

\* `t *= rhs` on the caller's transform
MulAssign(rhs) ==
    /\ api = "transform"
    /\ tf_ops < MaxOps
    /\ tf_cur' = mul_assign(tf_cur, rhs)
    /\ tf_call' = [fn |-> "mul_assign", self |-> tf_cur, rhs |-> rhs, result |-> tf_cur']
    /\ tf_ops' = tf_ops + 1
    /\ UNCHANGED <<api, rvars, bvars, dvars, svars, tf_pt>>

\* `t = t * rhs`
Mul(rhs) ==
    /\ api = "transform"
    /\ tf_ops < MaxOps
    /\ tf_cur' = mul(tf_cur, rhs)
    /\ tf_call' = [fn |-> "mul", self |-> tf_cur, rhs |-> rhs, result |-> tf_cur']
    /\ tf_ops' = tf_ops + 1
    /\ UNCHANGED <<api, rvars, bvars, dvars, svars, tf_pt>>

\* `t.inverse()`; a returned transform becomes the caller's transform
Inverse ==
    /\ api = "transform"
    /\ tf_ops < MaxOps
    /\ \E r \in {inverse(tf_cur)} :
        /\ tf_call' = [fn |-> "inverse", self |-> tf_cur, returned |-> r]
        /\ tf_cur' = IF r.some THEN r.value ELSE tf_cur
    /\ tf_ops' = tf_ops + 1
    /\ UNCHANGED <<api, rvars, bvars, dvars, svars, tf_pt>>

\* `t.transform(x, y)`; the returned point becomes the caller's point
Transform ==
    /\ api = "transform"
    /\ tf_ops < MaxOps
    /\ tf_pt' = transform(tf_cur, tf_pt[1], tf_pt[2])
    /\ tf_call' = [fn |-> "transform", self |-> tf_cur, point |-> tf_pt, result |-> tf_pt']
    /\ tf_ops' = tf_ops + 1
    /\ UNCHANGED <<api, rvars, bvars, dvars, svars, tf_cur>>

TransformNext ==
    \/ \E rhs \in Operands : MulAssign(rhs)
    \/ \E rhs \in Operands : Mul(rhs)
    \/ Inverse
    \/ Transform

TransformSpec == TransformInit /\ [][TransformNext]_vars

-----------------------------------------------------------------------------
(* Properties of grouping. *)

\* the lengths of the sequences of a sequence
Lens(ss) == [g \in 1..Len(ss) |-> Len(ss[g])]

RECURSIVE Sum(_)
Sum(ns) == IF Len(ns) = 0 THEN 0 ELSE Head(ns) + Sum(Tail(ns))

\* how many elements the sequences before the g-th hold
Before(ss, g) == Sum([k \in 1..(g - 1) |-> Len(ss[k])])

\* the textures of a list of lib.rs sprites
TexturesOf(sprs) == [i \in 1..Len(sprs) |-> sprs[i].slice.texture]

\* the items of the groups batch() returned
BatchItems == [g \in 1..Len(batch_out.groups) |-> batch_out.groups[g].items]

\* C1: grouping keeps the order. The groups prepare makes, read one after the other,
\* are the input list: as many sprites, the j-th sprite of group g being the input
\* sprite at the position the earlier groups leave. The same holds of the items of
\* batch(), each item carrying its sprite's source offset, size, layer, transform, tint.
C1_OrderPreserved ==
    /\ Sum(Lens(grouped)) = Len(sprites)
    /\ \A g \in 1..Len(grouped) : \A j \in 1..Len(grouped[g]) :
          grouped[g][j] = sprites[Before(grouped, g) + j]
    /\ batch_out.called =>
          /\ Sum(Lens(BatchItems)) = Len(batch_in)
          /\ \A g \in 1..Len(BatchItems) : \A j \in 1..Len(BatchItems[g]) :
                LET item == BatchItems[g][j]
                    sprite == batch_in[Before(BatchItems, g) + j]
                IN  /\ item.src_offset = sprite.src_offset
                    /\ item.src_size = sprite.src_size
                    /\ item.src_layer = sprite.src_layer
                    /\ item.transform = sprite.transform
                    /\ item.tint = sprite.tint

\* batch() has returned two groups for four sprites, the first two of them different
\* sprites of one texture
C1_Witness ==
    /\ batch_out.called
    /\ Len(batch_in) = 4
    /\ Len(batch_out.groups) = 2
    /\ batch_in[1] # batch_in[2]
    /\ batch_in[1].texture = batch_in[2].texture

\* C2: grouping is maximal-contiguous. Every group is non-empty, the sprites of a group
\* have one texture, two adjacent groups have different textures, and the textures
\* <<1, 1, 2, 1>> give three groups of sizes <<2, 1, 1>>; for prepare, whose prepared
\* groups bind the textures of its groups in order, and for batch().
C2_MaximalContiguous ==
    /\ \A g \in 1..Len(grouped) :
          /\ Len(grouped[g]) > 0
          /\ \A j \in 1..Len(grouped[g]) :
                grouped[g][j].slice.texture = grouped[g][1].slice.texture
          /\ g > 1 => grouped[g][1].slice.texture # grouped[g - 1][1].slice.texture
    /\ TexturesOf(sprites) = <<1, 1, 2, 1>> => Lens(grouped) = <<2, 1, 1>>
    /\ (frame > 0 /\ ~panicked) =>
          /\ Len(prepared_groups) = Len(grouped)
          /\ \A g \in 1..Len(grouped) :
                prepared_groups[g].texture_bind_group.texture_view
                   = grouped[g][1].slice.texture
    /\ batch_out.called =>
          /\ \A g \in 1..Len(BatchItems) :
                /\ Len(BatchItems[g]) > 0
                /\ \A j \in 1..Len(BatchItems[g]) :
                      batch_in[Before(BatchItems, g) + j].texture
                         = batch_out.groups[g].texture
                /\ g > 1 => batch_out.groups[g].texture # batch_out.groups[g - 1].texture
          /\ [i \in 1..Len(batch_in) |-> batch_in[i].texture] = <<1, 1, 2, 1>>
                => Lens(BatchItems) = <<2, 1, 1>>

\* prepare has grouped a list whose textures are <<1, 1, 2, 1>>
C2_Witness ==
    /\ frame > 0
    /\ ~panicked
    /\ TexturesOf(sprites) = <<1, 1, 2, 1>>
    /\ Len(prepared_groups) = 3

-----------------------------------------------------------------------------
(* Properties of DynamicBuffer. *)

\* C3: the capacity of a DynamicBuffer never decreases. After every write the capacity
\* is at least the capacity before it, at least the size of every data block written
\* so far, and at least the capacity the buffer was created with.
C3_CapacityMonotone ==
    /\ \A k \in 1..Len(dbuf_hist) :
          /\ dbuf_hist[k].after.size >= dbuf_hist[k].before.size
          /\ dbuf_hist[k].after.size >= dbuf_hist[1].before.size
          /\ \A m \in 1..k : dbuf_hist[k].after.size >= dbuf_hist[m].data.bytes
          /\ k > 1 => dbuf_hist[k].before = dbuf_hist[k - 1].after
    /\ dbuf_hist # <<>> => dbuf.inner = dbuf_hist[Len(dbuf_hist)].after

\* a write that grew the buffer, then a smaller write, then a write that grew it again
C3_Witness ==
    /\ Len(dbuf_hist) = 3
    /\ dbuf_hist[1].data.bytes > dbuf_hist[1].before.size
    /\ dbuf_hist[2].data.bytes < dbuf_hist[1].data.bytes
    /\ dbuf_hist[3].data.bytes > dbuf_hist[2].after.size

\* C4: write replaces the GPU buffer exactly when the data is larger than the capacity.
\* Then the new buffer is a new object of exactly the data's size, with the old usage
\* and label, filled with the data through its mapping at creation and unmapped.
\* Otherwise the buffer object and its capacity stay and the data is written through
\* the queue at offset 0.
C4_WriteReplacesIffTooSmall ==
    \A k \in 1..Len(dbuf_hist) :
        LET h == dbuf_hist[k]
        IN  /\ h.after.usage = h.before.usage
            /\ h.after.label = h.before.label
            /\ IF h.data.bytes > h.before.size
               THEN /\ \A m \in 1..k : h.after.id # dbuf_hist[m].before.id
                    /\ h.after.size = h.data.bytes
                    /\ h.after.write =
                          [via |-> "mapped_range", offset |-> 0, data |-> h.data]
                    /\ ~h.after.mapped
               ELSE /\ h.after.id = h.before.id
                    /\ h.after.size = h.before.size
                    /\ h.after.write =
                          [via |-> "queue_write", offset |-> 0, data |-> h.data]

\* a write of exactly the capacity, kept in place, followed by a write that replaced
\* the buffer
C4_Witness ==
    /\ Len(dbuf_hist) >= 2
    /\ dbuf_hist[1].data.bytes = dbuf_hist[1].before.size
    /\ dbuf_hist[1].after.id = dbuf_hist[1].before.id
    /\ dbuf_hist[2].after.id # dbuf_hist[2].before.id

-----------------------------------------------------------------------------
(* Properties of Renderer::prepare and Renderer::render. *)

\* C5: the uniform offset prepare binds for every group is a multiple of the device's
\* alignment, and the offsets of two consecutive groups are at least one
\* TextureUniforms record apart.
C5_UniformOffsetsAligned ==
    \A g \in 1..Len(prepared_groups) :
        /\ prepared_groups[g].texture_bind_group.offset % alignment = 0
        /\ g > 1 => prepared_groups[g].texture_bind_group.offset
                       - prepared_groups[g - 1].texture_bind_group.offset
                    >= TextureUniformsSize

\* prepare has bound four groups
C5_Witness ==
    /\ ~panicked
    /\ Len(prepared_groups) = 4
    /\ prepared_groups[4].texture_bind_group.offset > 0

\* C6: a prepare of n sprites writes 4n vertices and 6n indices, and the index range of
\* every prepared group is 6 times as long as the group has sprites.
C6_VertexIndexCounts ==
    (frame > 0 /\ ~panicked) =>
        /\ Len(vertex_buffer.inner.write.data.items) = 4 * Len(sprites)
        /\ vertex_buffer.inner.write.data.bytes = VertexSize * 4 * Len(sprites)
        /\ Len(index_buffer.inner.write.data.items) = 6 * Len(sprites)
        /\ index_buffer.inner.write.data.bytes = IndexSize * 6 * Len(sprites)
        /\ Len(prepared_groups) = Len(grouped)
        /\ \A g \in 1..Len(prepared_groups) :
              prepared_groups[g].index_buffer_end - prepared_groups[g].index_buffer_start
                 = 6 * Len(grouped[g])

\* prepare has emitted four sprites in a group of one and a group of three
C6_Witness ==
    /\ frame > 0
    /\ ~panicked
    /\ Lens(grouped) = <<1, 3>>
    /\ Len(index_buffer.inner.write.data.items) = 24

\* the positions of a command list that hold the command `op`
Commands(cmds, op) == { k \in 1..Len(cmds) : cmds[k].op = op }

\* the positions of a command list that bind a bind group at `index`
Binds(cmds, index) ==
    { k \in Commands(cmds, "set_bind_group") : cmds[k].index = index }

\* C7: a render adds to the pass one pipeline bind and one bind of the target-uniform
\* bind group, both ahead of every draw, and then per prepared group, in order, a bind
\* of the group's texture bind group followed by one indexed draw of exactly the
\* group's index range; there are as many draws as prepared groups, and the Renderer's
\* buffers, capacities and prepared groups are what they were.
C7_RenderRecords ==
    [][Len(rpass') = Len(rpass) + 1 =>
          LET cmds == rpass'[Len(rpass')]
              n == Len(prepared_groups)
              first == Len(cmds) - 2 * n
          IN  /\ Cardinality(Commands(cmds, "set_pipeline")) = 1
              /\ Cardinality(Binds(cmds, 1)) = 1
              /\ \A k \in Binds(cmds, 1) : cmds[k].bind_group = "target_uniforms"
              /\ \A k \in Commands(cmds, "set_pipeline") \cup Binds(cmds, 1) : k <= first
              /\ Cardinality(Commands(cmds, "draw_indexed")) = n
              /\ Cardinality(Binds(cmds, 0)) = n
              /\ first >= 2
              /\ \A g \in 1..n :
                    /\ cmds[first + 2 * g - 1] =
                          [op |-> "set_bind_group", index |-> 0,
                           bind_group |-> prepared_groups[g].texture_bind_group]
                    /\ cmds[first + 2 * g].op = "draw_indexed"
                    /\ cmds[first + 2 * g].indices =
                          <<prepared_groups[g].index_buffer_start,
                            prepared_groups[g].index_buffer_end>>
              /\ UNCHANGED <<alignment, panicked, target_uniforms, texture_uniforms_buffer,
                             vertex_buffer, index_buffer, prepared_groups, next_buffer,
                             frame, sprites, grouped>>
      ]_vars

\* render has recorded three prepared groups into a pass
C7_Witness ==
    /\ Len(rpass) >= 1
    /\ Len(prepared_groups) = 3
    /\ Cardinality(Commands(rpass[1], "draw_indexed")) = 3

\* the positions of a texture list that start a run of equal textures
RunStarts(texs) == { i \in 1..Len(texs) : i = 1 \/ texs[i] # texs[i - 1] }

\* the position that starts the g-th run
RunFirst(texs, g) ==
    CHOOSE i \in RunStarts(texs) : Cardinality({ j \in RunStarts(texs) : j < i }) = g - 1

\* the position that ends the g-th run
RunLast(texs, g) ==
    IF g = Cardinality(RunStarts(texs)) THEN Len(texs) ELSE RunFirst(texs, g + 1) - 1

\* C8: after every prepare the prepared groups are those of the sprite list of that
\* prepare and nothing else: one per run of equal textures, in order, made by that
\* prepare, binding the run's texture and covering the six indices of each of its
\* sprites; and what a following render draws is those ranges.
C8_PreparedFrameRebuilt ==
    ~panicked =>
        LET texs == TexturesOf(sprites)
        IN  /\ Len(prepared_groups) = Cardinality(RunStarts(texs))
            /\ \A g \in 1..Len(prepared_groups) :
                  LET pg == prepared_groups[g]
                  IN  /\ pg.texture_bind_group.created = <<frame, g - 1>>
                      /\ pg.texture_bind_group.texture_view = texs[RunFirst(texs, g)]
                      /\ pg.index_buffer_start = 6 * (RunFirst(texs, g) - 1)
                      /\ pg.index_buffer_end = 6 * RunLast(texs, g)
            /\ \A k \in 1..Len(rpass) :
                  LET draws == Commands(rpass[k], "draw_indexed")
                  IN  { rpass[k][d].indices : d \in draws }
                         = { <<6 * (RunFirst(texs, g) - 1), 6 * RunLast(texs, g)>> :
                                g \in 1..Cardinality(RunStarts(texs)) }

\* a second prepare, of a single sprite, has been rendered
C8_Witness ==
    /\ frame = 2
    /\ ~panicked
    /\ Len(sprites) = 1
    /\ Len(prepared_groups) = 1
    /\ Len(rpass) = 1

\* C9 as stated: a prepared frame is rendered at most once, so a pass never holds two
\* renders of the frame of one prepare.
C9_SingleUse == Len(rpass) <= 1

\* C9, corrected: render may be applied to one prepared frame any number of times and
\* records the same commands each time; what cannot happen is a render of a frame after
\* a later prepare: every bind group a pass holds was made by the most recent prepare.
C9_RendersCurrentFrame ==
    \A k \in 1..Len(rpass) :
        /\ rpass[k] = rpass[1]
        /\ Cardinality(Binds(rpass[k], 0)) = Len(prepared_groups)
        /\ \A c \in Binds(rpass[k], 0) :
              /\ rpass[k][c].bind_group.created[1] = frame
              /\ \E g \in 1..Len(prepared_groups) :
                    rpass[k][c].bind_group = prepared_groups[g].texture_bind_group

\* the frame of the second prepare has been rendered twice into one pass
C9_Witness ==
    /\ frame = 2
    /\ Len(rpass) = 2
    /\ Len(prepared_groups) >= 2

-----------------------------------------------------------------------------
(* Properties of TextureSlice. *)

\* the rectangle r, read with unbounded integers, lies within the rectangle s
Within(r, s) ==
    /\ r.offset[1] >= s.offset[1]
    /\ r.offset[2] >= s.offset[2]
    /\ r.offset[1] + r.size[1] <= s.offset[1] + s.size[1]
    /\ r.offset[2] + r.size[2] <= s.offset[2] + s.size[2]

\* C10: slice never escapes. A slice call that returns Some returns the rectangle
\* {s.offset + offset, size}, which lies within the rectangle of s and is no larger per
\* axis; a call whose rectangle has an edge outside s returns no slice; and every slice
\* reached from from_layer lies within the whole texture.
C10_SliceNeverEscapes ==
    /\ slice_call.fn = "slice" =>
          LET s == slice_call.self.rect
              asked == [offset |-> <<s.offset[1] + slice_call.offset[1],
                                     s.offset[2] + slice_call.offset[2]>>,
                        size |-> slice_call.size]
          IN  /\ slice_call.result = "Some" =>
                    /\ slice_call.value.rect = asked
                    /\ Within(slice_call.value.rect, s)
                    /\ slice_call.value.rect.size[1] <= s.size[1]
                    /\ slice_call.value.rect.size[2] <= s.size[2]
              /\ ~Within(asked, s) => slice_call.result # "Some"
    /\ slice_cur.some =>
          Within(slice_cur.value.rect,
                 Rect(0, 0, slice_tex.value.width, slice_tex.value.height))

-----------------------------------------------------------------------------
(* Properties of AffineTransform. *)

\* a point with integer coordinates
IntPoint(x, y) == <<Float(x), Float(y)>>

\* the images of the corners (0,0), (0,210), (280,0), (280,210) under a transform
Corners(t) ==
    << transform(t, Float(0), Float(0)), transform(t, Float(0), Float(210)),
       transform(t, Float(280), Float(0)), transform(t, Float(280), Float(210)) >>

\* the last call was a composition, by `*` or by `*=`
Composed == tf_call.fn \in {"mul", "mul_assign"}

\* C11: round trip. Whenever inverse returns a transform, applying the transform and
\* then its inverse returns every point, and so does applying the composition of the
\* transform with its inverse.
C11_RoundTrip ==
    (tf_call.fn = "inverse" /\ tf_call.returned.some) =>
        \A p \in Points :
            LET t == tf_call.self
                inv == tf_call.returned.value
                q == transform(t, p[1], p[2])
            IN  /\ transform(inv, q[1], q[2]) = p
                /\ transform(mul(t, inv), p[1], p[2]) = p

\* C12 as stated: translation(10,20) * scaling(2,2) places the corners of a 280 x 210
\* rectangle at (10,20), (10,440), (570,20), (570,440).
C12_ScenarioC ==
    (/\ Composed
     /\ tf_call.self = translation(Float(10), Float(20))
     /\ tf_call.rhs = scaling(Float(2), Float(2))) =>
        Corners(tf_call.result)
           = << IntPoint(10, 20), IntPoint(10, 440), IntPoint(570, 20), IntPoint(570, 440) >>

\* C12, corrected: translation(10,20) * scaling(2,2) translates first and scales
\* second, which places the corners at (20,40), (20,460), (580,40), (580,460); the
\* corners (10,20), (10,440), (570,20), (570,440) are those of
\* scaling(2,2) * translation(10,20).
C12_ScenarioCLeftFirst ==
    /\ (/\ Composed
        /\ tf_call.self = translation(Float(10), Float(20))
        /\ tf_call.rhs = scaling(Float(2), Float(2))) =>
          Corners(tf_call.result)
             = << IntPoint(20, 40), IntPoint(20, 460), IntPoint(580, 40), IntPoint(580, 460) >>
    /\ (/\ Composed
        /\ tf_call.self = scaling(Float(2), Float(2))
        /\ tf_call.rhs = translation(Float(10), Float(20))) =>
          Corners(tf_call.result)
             = << IntPoint(10, 20), IntPoint(10, 440), IntPoint(570, 20), IntPoint(570, 440) >>

\* the corner (280,210) has been transformed by translation(10,20) * scaling(2,2)
C12_Witness ==
    /\ tf_call.fn = "transform"
    /\ tf_call.self = <<Float(2), Float(0), Float(0), Float(2), Float(20), Float(40)>>
    /\ tf_call.point = IntPoint(280, 210)
    /\ tf_call.result = IntPoint(580, 460)

\* the sign of the exact value of m00 * m11 - m01 * m10
ExactDeterminantSign(t) ==
    LET n == t[1][1] * t[4][1] * t[2][2] * t[3][2] - t[2][1] * t[3][1] * t[1][2] * t[4][2]
    IN  IF n = 0 THEN 0 ELSE IF n > 0 THEN 1 ELSE -1

\* C13: inverse returns None exactly when m00 * m11 - m01 * m10 is 0, and a transform
\* for every other determinant, however small.
C13_DegenerateInverse ==
    tf_call.fn = "inverse" =>
        (tf_call.returned = None <=> ExactDeterminantSign(tf_call.self) = 0)

\* inverse has returned None for scaling(0,1)
C13_Witness ==
    /\ tf_call.fn = "inverse"
    /\ tf_call.self = scaling(Float(0), Float(1))
    /\ tf_call.returned = None

\* C19: composition and point transformation follow one convention. The composition
\* a * b maps every point to b.transform(a.transform(p)), `*=` and `*` give the same
\* transform, IDENTITY is neutral on the left and on the right, and composition is
\* associative.
C19_CompositionConvention ==
    Composed =>
        LET a == tf_call.self
            b == tf_call.rhs
            ab == tf_call.result
        IN  /\ \A p \in Points :
                  LET q == transform(a, p[1], p[2])
                  IN  transform(ab, p[1], p[2]) = transform(b, q[1], q[2])
            /\ ab = mul(a, b)
            /\ ab = mul_assign(a, b)
            /\ a = IDENTITY => ab = b
            /\ b = IDENTITY => ab = a
            /\ \A c \in Operands : mul(ab, c) = mul(a, mul(b, c))

\* the quarter turn with a translation has been composed with the reflecting shear,
\* after an earlier call
C19_Witness ==
    /\ tf_call.fn = "mul"
    /\ tf_call.self = IntTransform(0, 1, -1, 0, 5, 7)
    /\ tf_call.rhs = IntTransform(1, 2, 1, 1, -4, 6)
    /\ tf_call.result # mul(tf_call.rhs, tf_call.self)
    /\ tf_ops = 2

-----------------------------------------------------------------------------
(* Properties of TextureSlice::from_layer. *)

\* C14: from_layer returns None exactly when the layer is at or beyond the texture's
\* layer count; otherwise it returns the slice of that texture and layer whose
\* rectangle is the whole texture: offset (0,0), size (width, height).
C14_FromLayer ==
    slice_call.fn = "from_layer" =>
        /\ slice_call.returned = None <=> slice_call.layer >= slice_tex.value.layers
        /\ slice_call.returned.some =>
              /\ slice_call.returned.value.texture = slice_tex.value.id
              /\ slice_call.returned.value.layer = slice_call.layer
              /\ slice_call.returned.value.rect.offset = <<0, 0>>
              /\ slice_call.returned.value.rect.size
                    = <<slice_tex.value.width, slice_tex.value.height>>

\* from_layer has returned the last layer of a texture of two layers
C14_Witness ==
    /\ slice_call.fn = "from_layer"
    /\ slice_tex.value.layers = 2
    /\ slice_call.layer = 1
    /\ slice_call.returned.some

-----------------------------------------------------------------------------
(* Further properties of Renderer::prepare and Renderer::render. *)

\* a write of no bytes through the queue
EmptyQueueWrite == [via |-> "queue_write", offset |-> 0, data |-> [bytes |-> 0, items |-> <<>>]]

\* the DynamicBuffer keeps its GPU buffer and its capacity over the step
KeepsBuffer(before, after) ==
    /\ after.inner.id = before.inner.id
    /\ after.inner.size = before.inner.size

\* C15: a prepare of the empty list, on a device whose alignment the uniform packing
\* accepts, does not panic; it leaves no prepared group, writes no vertex, no index and
\* no uniform record, creates no buffer and changes no capacity, whatever the prepare
\* before it was given; and a render of the empty frame records no draw.
C15_EmptyList ==
    [][/\ (frame' = frame + 1 /\ sprites' = <<>> /\ alignment >= MinEncaseAlignment) =>
             /\ ~panicked'
             /\ prepared_groups' = <<>>
             /\ vertex_buffer'.inner.write = EmptyQueueWrite
             /\ index_buffer'.inner.write = EmptyQueueWrite
             /\ texture_uniforms_buffer'.inner.write = EmptyQueueWrite
             /\ KeepsBuffer(vertex_buffer, vertex_buffer')
             /\ KeepsBuffer(index_buffer, index_buffer')
             /\ KeepsBuffer(texture_uniforms_buffer, texture_uniforms_buffer')
             /\ next_buffer' = next_buffer
       /\ (Len(rpass') = Len(rpass) + 1 /\ sprites = <<>>) =>
             Commands(rpass'[Len(rpass')], "draw_indexed") = {}
      ]_vars

\* a prepare of the empty list, after a prepare that grew the uniform buffer, has been
\* rendered
C15_Witness ==
    /\ frame = 2
    /\ ~panicked
    /\ sprites = <<>>
    /\ texture_uniforms_buffer.inner.size > TextureUniformsSize
    /\ Len(rpass) = 1
    /\ Commands(rpass[1], "draw_indexed") = {}

\* C16: after every prepare the bind group of group i refers to the GPU buffer the
\* texture-uniform DynamicBuffer holds now, at the byte offset at which record i was
\* written, the record lying inside the buffer's capacity; record i holds the width and
\* height of the texture of group i, and is_mask is 1 for the R8Unorm texture and 0
\* for the other.
C16_BindGroupsMatchRecords ==
    (frame > 0 /\ ~panicked) =>
        LET buffer == texture_uniforms_buffer.inner
            records == buffer.write.data.items
            texs == TexturesOf(sprites)
        IN  /\ Len(records) = Len(prepared_groups)
            /\ \A i \in 1..Len(prepared_groups) :
                  LET bg == prepared_groups[i].texture_bind_group
                      tex == CHOOSE t \in Textures : t.id = texs[RunFirst(texs, i)]
                  IN  /\ bg.buffer = buffer.id
                      /\ bg.offset = buffer.write.offset + records[i].offset
                      /\ bg.size = TextureUniformsSize
                      /\ bg.offset + bg.size <= buffer.size
                      /\ bg.texture_view = tex.id
                      /\ records[i].value.size = <<tex.width, tex.height, 0>>
                      /\ records[i].value.is_mask = (IF tex.format = "R8Unorm" THEN 1 ELSE 0)

\* the second prepare has replaced the uniform buffer a second time, for three groups
\* of which the second has the R8Unorm texture
C16_Witness ==
    /\ frame = 2
    /\ ~panicked
    /\ texture_uniforms_buffer.inner.id > 5
    /\ texture_uniforms_buffer.inner.write.via = "mapped_range"
    /\ TexturesOf(sprites) = <<1, 2, 1>>
    /\ prepared_groups[3].texture_bind_group.buffer = texture_uniforms_buffer.inner.id

\* the prepared group whose index range holds the six indices of the k-th sprite
DrawsOf(k) ==
    { g \in 1..Len(prepared_groups) :
         /\ prepared_groups[g].index_buffer_start <= 6 * (k - 1)
         /\ 6 * k <= prepared_groups[g].index_buffer_end }

\* C17: draw order is input order. The index ranges of the prepared groups tile
\* [0, 6n): the first starts at 0, each starts where the one before ends, none is
\* empty, the last ends at 6n. The six indices of the k-th sprite are the k-th six of
\* the index buffer and point at the k-th four vertices; they lie in the range of
\* exactly one group, which binds the sprite's texture, and a later sprite lies in the
\* same or a later group. render issues the draws in the order of the groups.
C17_DrawOrder ==
    (frame > 0 /\ ~panicked) =>
        LET n == Len(sprites)
            groups == Len(prepared_groups)
            indices == index_buffer.inner.write.data.items
        IN  /\ groups = 0 <=> n = 0
            /\ groups > 0 =>
                  /\ prepared_groups[1].index_buffer_start = 0
                  /\ prepared_groups[groups].index_buffer_end = 6 * n
            /\ \A g \in 1..groups :
                  /\ prepared_groups[g].index_buffer_start < prepared_groups[g].index_buffer_end
                  /\ g > 1 => prepared_groups[g].index_buffer_start
                                 = prepared_groups[g - 1].index_buffer_end
            /\ Len(indices) = 6 * n
            /\ \A k \in 1..n :
                  /\ \A c \in 1..6 :
                        /\ indices[6 * (k - 1) + c] >= 4 * (k - 1)
                        /\ indices[6 * (k - 1) + c] < 4 * k
                  /\ Cardinality(DrawsOf(k)) = 1
                  /\ \A g \in DrawsOf(k) :
                        /\ prepared_groups[g].texture_bind_group.texture_view
                              = sprites[k].slice.texture
                        /\ \A j \in k..n : \A h \in DrawsOf(j) : g <= h
            /\ \A r \in 1..Len(rpass) :
                  LET draws == Commands(rpass[r], "draw_indexed")
                  IN  /\ Cardinality(draws) = groups
                      /\ \A d \in draws :
                            rpass[r][d].indices =
                               LET g == Cardinality({ b \in draws : b <= d })
                               IN  <<prepared_groups[g].index_buffer_start,
                                     prepared_groups[g].index_buffer_end>>

\* four sprites in two groups of two have been prepared and rendered
C17_Witness ==
    /\ frame > 0
    /\ ~panicked
    /\ Len(sprites) = 4
    /\ Len(prepared_groups) = 2
    /\ prepared_groups[2].index_buffer_start = 12
    /\ prepared_groups[2].index_buffer_end = 24
    /\ Len(rpass) = 1

\* the image of the local point (x, y) under a sprite's transform, with z = 0
Placed(t, x, y) == <<t[1] * x + t[3] * y + t[5], t[2] * x + t[4] * y + t[6], 0>>

\* C18: per-sprite geometry. The k-th sprite (counted from 0 over all groups) has the
\* vertices 4k..4k+3 and the index positions 6k..6k+5, its indices being
\* [4k, 4k+1, 4k+2, 4k+1, 4k+2, 4k+3], all below 4n. Its vertices are at the sprite's
\* transform of the local corners (0,0), (0,h), (w,0), (w,h), (w,h) being the slice
\* size, with the texture coordinates (left,top), (left,bottom), (right,top),
\* (right,bottom) of the slice's rectangle, and all carry the slice's layer and the
\* sprite's tint.
C18_SpriteGeometry ==
    (frame > 0 /\ ~panicked) =>
        LET n == Len(sprites)
            vertices == vertex_buffer.inner.write.data.items
            indices == index_buffer.inner.write.data.items
        IN  /\ Len(vertices) = 4 * n
            /\ Len(indices) = 6 * n
            /\ \A i \in 1..Len(indices) : indices[i] >= 0 /\ indices[i] < 4 * n
            /\ \A k \in 0..(n - 1) :
                  LET s == sprites[k + 1]
                      w == s.slice.rect.size[1]
                      h == s.slice.rect.size[2]
                      left == s.slice.rect.offset[1]
                      top == s.slice.rect.offset[2]
                      right == left + w
                      bottom == top + h
                      v(c) == vertices[4 * k + c + 1]
                  IN  /\ [c \in 1..6 |-> indices[6 * k + c]]
                            = <<4 * k, 4 * k + 1, 4 * k + 2, 4 * k + 1, 4 * k + 2, 4 * k + 3>>
                      /\ v(0).position = Placed(s.transform, 0, 0)
                      /\ v(1).position = Placed(s.transform, 0, h)
                      /\ v(2).position = Placed(s.transform, w, 0)
                      /\ v(3).position = Placed(s.transform, w, h)
                      /\ v(0).tex_coords = <<left, top>>
                      /\ v(1).tex_coords = <<left, bottom>>
                      /\ v(2).tex_coords = <<right, top>>
                      /\ v(3).tex_coords = <<right, bottom>>
                      /\ \A c \in 0..3 :
                            /\ v(c).layer = s.slice.layer
                            /\ v(c).tint = [ch \in 1..4 |-> <<s.tint[ch], 255>>]

\* the third sprite of a list is the quarter-turned slice of the second texture: its
\* last vertex is at (-45, 107) with the texture coordinates (108, 54)
C18_Witness ==
    /\ frame > 0
    /\ ~panicked
    /\ Len(sprites) = 3
    /\ vertex_buffer.inner.write.data.items[12].position = <<-45, 107, 0>>
    /\ vertex_buffer.inner.write.data.items[12].tex_coords = <<108, 54>>
    /\ vertex_buffer.inner.write.data.items[12].layer = 1

====
